---- MODULE Spec2Model ----
(***************************************************************************)
(* Cache-validity model of the halo power-spectrum engine of chomp         *)
(* (halo.py: classes Halo, HaloExclusion, HaloFit).                        *)
(*                                                                         *)
(* Numerical quantities are represented by what they were computed from:   *)
(* a spline is the record of the inputs its integrals read when it was     *)
(* fitted, a returned power spectrum is the expression tree the method     *)
(* evaluates over those splines.  Two values are equal exactly when they   *)
(* were computed from the same inputs by the same expression.              *)
(***************************************************************************)
EXTENDS Integers, FiniteSets, Sequences, TLC

VARIABLES
    self,   \* the model instance: every attribute of the Halo object
    call,   \* the name of the public method called last
    halo_b, \* the copy of the instance that covariance.py makes, if any
    rebuild, \* the term fit a second thread has in progress, if any
    cov     \* the Covariance object: its annular bins and its kb spline

vars == <<self, call, halo_b, rebuild, cov>>

----------------------------------------------------------------------------
(* Bounds of the model.                                                    *)

NumCosmo == 2       \* cosmology parameter dictionaries 1..NumCosmo
NumHod == 2         \* HOD objects 1..NumHod
NumHaloDict == 2    \* halo-shape dictionaries 1..NumHaloDict
MaxRedshift == 1    \* redshifts 0..MaxRedshift
NumMass == 3        \* halo masses 1..NumMass at which an integrand is sampled

CosmoDicts == 1..NumCosmo
Hods == 1..NumHod
HaloDicts == 1..NumHaloDict
Redshifts == 0..MaxRedshift
Masses == 1..NumMass

(* Angles of Covariance.__init__ as log10(theta/deg) in units of           *)
(* 1/LogUnits of a decade; theta_min_deg and theta_max_deg range over      *)
(* -MaxLogTheta..MaxLogTheta, bins_per_decade over divisors of LogUnits.   *)
LogUnits == 6
MaxLogTheta == 6
LogThetas == (0 - MaxLogTheta)..MaxLogTheta
BinsPerDecade == {1, 2, 3}

(* Iterations of the annular-bin loop that change nothing are counted up   *)
(* to MaxSpins.                                                            *)
MaxSpins == 2

Variants == {"Halo", "HaloExclusion", "HaloFit"}

(* Wavenumbers in units of 1e-4 h/Mpc.                                     *)
k_min == 10
k_max == 1000000
KSamples == {k_min - 1, k_min, k_max, k_max + 1}

(* The redshift=None default of set_cosmology.                             *)
None == -1

(* The defaults of Halo.__init__: redshift 0.0, cosmology.SingleEpoch with *)
(* the default cosmology, defaults.default_halo_dict, hod.HODZheng().      *)
DefaultRedshift == 0
DefaultCosmoDict == 1
DefaultHaloDict == 1
DefaultHod == 1

(* A HOD whose occupation is zero at every mass.                           *)
ZeroHod == 0

(* A halo dictionary without the key "c0", and one that holds a c0 outside *)
(* its valid domain (a negative concentration).                            *)
MissingKeyHaloDict == -2
OutOfDomainHaloDict == 0

(* Occupation moments in tenths: Unity is the 1 of n_exp < 1.              *)
Unity == 10

(* hod.first_moment(mass) and hod.second_moment(mass) of the HOD objects   *)
(* 0..NumHod, in tenths.  HOD 1 has first moments 0.5, 1.0, 1.5, ... and   *)
(* second moments 0.2, 1.0, 2.2, ...                                       *)
first_moment(hod, mass) == 5 * hod * mass

(* hod.first_moment_zero and hod.second_moment_zero: the mass below which  *)
(* the moment is identically zero, -1 when there is none; masses in units  *)
(* of the mass-function floor exp(ln_mass_min), which is MassFloor.        *)
(* HOD 1 has first_moment_zero 2 (above the floor) and second_moment_zero  *)
(* -1; HOD 2 has first_moment_zero 1 (the floor itself) and                *)
(* second_moment_zero 3.                                                   *)
MassFloor == 1

first_moment_zero(hod) == 3 - hod

second_moment_zero(hod) == 4 * hod - 5

second_moment(hod, mass) == (first_moment(hod, mass) * first_moment(hod, mass)) \div Unity

----------------------------------------------------------------------------
(* Values.                                                                 *)

NoSpline == [kind |-> "unset"]
Superseded == [kind |-> "superseded"]
Zero == [kind |-> "zero"]
AttributeError == [kind |-> "AttributeError"]

IsError(v) == v = AttributeError

Mul(a, b) ==
    IF IsError(a) \/ IsError(b) THEN AttributeError
    ELSE IF a = Zero \/ b = Zero THEN Zero
    ELSE [kind |-> "mul", l |-> a, r |-> b]

Add(a, b) ==
    IF IsError(a) \/ IsError(b) THEN AttributeError
    ELSE IF a = Zero THEN b
    ELSE IF b = Zero THEN a
    ELSE [kind |-> "add", l |-> a, r |-> b]

(* No copy of the instance has been made.                                  *)
NoHalo == [kind |-> "none"]

(* No thread is in the middle of fitting a term.                           *)
NoRebuild == [kind |-> "none"]

(* No Covariance object is under consideration.                            *)
NoCovariance == [kind |-> "none"]

(* scipy.integrate.romberg(integrand, ..., divmax=...): the integral when  *)
(* the relative tolerance is met; when divmax is exhausted first it issues *)
(* an AccuracyWarning and returns its last estimate.  Whether the          *)
(* quadratures of the running call exhaust divmax is h.divmax_exhausted.   *)
romberg(h, integrand) ==
    IF h.divmax_exhausted
    THEN [kind |-> "AccuracyWarning", estimate_of |-> integrand]
    ELSE integrand

(* The lower limit of a peak-height integral: self.mass.nu_min, or         *)
(* self.mass.nu(threshold) where the builder takes the HOD's threshold.    *)
MassNuMin == [kind |-> "nu_min"]

AdjustedNuMin(threshold) ==
    IF threshold > -1 /\ threshold > MassFloor
    THEN [kind |-> "nu", mass |-> threshold]
    ELSE MassNuMin

(* cosmology.SingleEpoch(redshift, cosmo_dict)                             *)
SingleEpoch(redshift, cosmo_dict) == [cosmo_dict |-> cosmo_dict, redshift |-> redshift]

(* mass_function.MassFunction(redshift, cosmo, halo_dict): the sampled     *)
(* grid is a function of the cosmology object and halo dictionary held.    *)
MassFunction(cosmo, halo_dict) == [cosmo |-> cosmo, halo_dict |-> halo_dict]

----------------------------------------------------------------------------
(* Integrands and the quantities they read (halo.py, class Halo).          *)

(* Halo.y: the NFW profile transform reads the concentration and virial    *)
(* radius splines and self._h.                                             *)
y(h) ==
    [concentration |-> h._ln_concen_spline,
     virial_radius |-> h._ln_r_v_spline,
     _h |-> h._h]

_nbar_integrand(h) == [first_moment |-> h.local_hod, mass |-> h.mass]

_h_m_integrand(h) == [term |-> "h_m", mass |-> h.mass, y |-> y(h)]

_pp_mm_integrand(h) == [term |-> "pp_mm", mass |-> h.mass, y |-> y(h)]

Halo_h_g_integrand(h) ==
    [term |-> "h_g", mass |-> h.mass, y |-> y(h),
     first_moment |-> h.local_hod,
     n_bar_over_rho_bar |-> h.n_bar_over_rho_bar,
     mass_window |-> NoSpline]

(* HaloExclusion._mass_window reads the virial radius spline.              *)
_mass_window(h) == h._ln_r_v_spline

HaloExclusion_h_g_integrand(h) ==
    [term |-> "h_g", mass |-> h.mass, y |-> y(h),
     first_moment |-> h.local_hod,
     n_bar_over_rho_bar |-> h.n_bar_over_rho_bar,
     mass_window |-> _mass_window(h)]

_h_g_integrand(h) ==
    IF h.variant = "HaloExclusion" THEN HaloExclusion_h_g_integrand(h)
    ELSE Halo_h_g_integrand(h)

(* Halo._pp_gg_integrand: numpy.where(n_pair < 1, ...*n_pair*y/...,        *)
(* ...*n_pair*y*y/...); y_power is the power of y used at each mass.       *)
_pp_gg_integrand(h) ==
    [term |-> "pp_gg", mass |-> h.mass, y |-> y(h),
     second_moment |-> h.local_hod, n_bar |-> h.n_bar,
     y_power |-> [mass \in Masses |->
                     IF second_moment(h.local_hod, mass) < Unity
                     THEN 1 ELSE 2]]

(* _pp_gm_integrand as it would be with n_exp <= 1 as the condition.       *)
_pp_gm_integrand_at_most_one(h) ==
    [term |-> "pp_gm", mass |-> h.mass, y |-> y(h),
     first_moment |-> h.local_hod,
     y_power |-> [mass \in Masses |->
                     IF first_moment(h.local_hod, mass) <= Unity
                     THEN 1 ELSE 2]]

(* Halo._pp_gm_integrand: numpy.where(n_exp < 1, ...*n_exp*y,              *)
(* ...*n_exp*y*y).                                                         *)
_pp_gm_integrand(h) ==
    [term |-> "pp_gm", mass |-> h.mass, y |-> y(h),
     first_moment |-> h.local_hod,
     y_power |-> [mass \in Masses |->
                     IF first_moment(h.local_hod, mass) < Unity
                     THEN 1 ELSE 2]]

----------------------------------------------------------------------------
(* Builders of the cached quantities.  Each records in h.built that it ran *)
(* (h.built is reset at the start of every public call).                   *)

(* The integral of a first moment that is zero at every mass is 0.0.       *)
_calculate_n_bar(h) ==
    LET over == IF \A mass \in Masses : first_moment(h.local_hod, mass) = 0
                THEN Zero
                ELSE romberg(h, _nbar_integrand(h))
    IN [h EXCEPT !.n_bar_over_rho_bar = over,
                 !.n_bar = [n_bar_over_rho_bar |-> over, rho_bar |-> h.rho_bar],
                 !.built = @ \cup {"n_bar"}]

_concentration(h) == [c0 |-> h.c0, beta |-> h.beta, m_star |-> h.mass]

_virial_radius(h) == [delta_v |-> h.delta_v, rho_bar |-> h.rho_bar]

_halo_normalization(h) ==
    [con |-> _concentration(h), rho_bar |-> h.rho_bar,
     delta_v |-> h.delta_v, alpha |-> h.alpha]

_initialize_halo_splines(h) ==
    [h EXCEPT !._ln_r_v_spline = [grid |-> h.mass, value |-> _virial_radius(h)],
              !._ln_concen_spline = [grid |-> h.mass, value |-> _concentration(h)],
              !._ln_halo_norm_spline =
                  [grid |-> h.mass, value |-> _halo_normalization(h)],
              !.built = @ \cup {"halo_splines"}]

_initialize_h_m(h) ==
    [h EXCEPT !._h_m_spline = [integrand |-> romberg(h, _h_m_integrand(h)), norm |-> Zero,
                               lower |-> MassNuMin],
              !._initialized_h_m = TRUE,
              !.built = @ \cup {"h_m"}]

_initialize_h_g(h) ==
    [h EXCEPT !._h_g_spline =
                  [integrand |-> romberg(h, _h_g_integrand(h)), norm |-> Zero,
                   lower |-> IF h.variant = "HaloExclusion"
                             THEN AdjustedNuMin(first_moment_zero(h.local_hod))
                             ELSE MassNuMin],
              !._initialized_h_g = TRUE,
              !.built = @ \cup {"h_g"}]

_initialize_pp_mm(h) ==
    [h EXCEPT !._pp_mm_spline =
                  [integrand |-> romberg(h, _pp_mm_integrand(h)), norm |-> h.rho_bar,
                   lower |-> MassNuMin],
              !._initialized_pp_mm = TRUE,
              !.built = @ \cup {"pp_mm"}]

(* _initialize_pp_gg as it would be with the first-moment threshold.       *)
_initialize_pp_gg_first_moment_zero(h) ==
    [h EXCEPT !._pp_gg_spline =
                  [integrand |-> romberg(h, _pp_gg_integrand(h)), norm |-> h.rho_bar,
                   lower |-> AdjustedNuMin(first_moment_zero(h.local_hod))],
              !._initialized_pp_gg = TRUE,
              !.built = @ \cup {"pp_gg"}]

_initialize_pp_gg(h) ==
    [h EXCEPT !._pp_gg_spline =
                  [integrand |-> romberg(h, _pp_gg_integrand(h)), norm |-> h.rho_bar,
                   lower |-> AdjustedNuMin(second_moment_zero(h.local_hod))],
              !._initialized_pp_gg = TRUE,
              !.built = @ \cup {"pp_gg"}]

_initialize_pp_gm(h) ==
    [h EXCEPT !._pp_gm_spline =
                  [integrand |-> romberg(h, _pp_gm_integrand(h)), norm |-> h.n_bar,
                   lower |-> AdjustedNuMin(first_moment_zero(h.local_hod))],
              !._initialized_pp_gm = TRUE,
              !.built = @ \cup {"pp_gm"}]

(* The derived scalars: each is a Romberg integral from                    *)
(* numpy.log(self.mass.nu_min), divided by n_bar_over_rho_bar.             *)
calculate_bias(h) ==
    [integrand |-> romberg(h, [scalar |-> "bias", mass |-> h.mass,
                               first_moment |-> h.local_hod]),
     norm |-> h.n_bar_over_rho_bar,
     lower |-> MassNuMin]

calculate_m_eff(h) ==
    [integrand |-> romberg(h, [scalar |-> "m_eff", mass |-> h.mass,
                               first_moment |-> h.local_hod]),
     norm |-> h.n_bar_over_rho_bar,
     lower |-> MassNuMin]

calculate_f_sat(h) ==
    [integrand |-> romberg(h, [scalar |-> "f_sat", mass |-> h.mass,
                               satellite_first_moment |-> h.local_hod]),
     norm |-> h.n_bar_over_rho_bar,
     lower |-> MassNuMin]

(* HaloFit._initialize_halo_fit: f_1, f_2, f_3, omega_l and w.             *)
_initialize_halo_fit(h) ==
    [h EXCEPT !.halo_fit = [cosmo |-> h.cosmo, w_at |-> h._redshift]]

(* HaloFit._initialize_sigma_spline: k_s, n_eff, C and the coefficients.   *)
(* It does not assign self._initialized_sigma_spline.                      *)
_initialize_sigma_spline(h) ==
    [h EXCEPT !.sigma = romberg(h, [delta_k |-> h.cosmo,
                                    halo_fit |-> h.halo_fit]),
              !.built = @ \cup {"sigma"}]

----------------------------------------------------------------------------
(* Construction.                                                           *)

(* self.c0 = halo_dict["c0"]/(1.0 + redshift)                              *)
ScaledC0(halo_dict, redshift) == [c0 |-> halo_dict, over |-> 1 + redshift]

Halo__init__(variant, redshift, input_hod, cosmo_single_epoch, halo_dict) ==
    LET h0 == [variant |-> variant,
               _redshift |-> redshift,
               cosmo |-> cosmo_single_epoch,
               cosmo_dict |-> None,
               halo_dict |-> halo_dict,
               mass |-> MassFunction(cosmo_single_epoch, halo_dict),
               c0 |-> ScaledC0(halo_dict, redshift),
               beta |-> halo_dict,
               alpha |-> -1,
               delta_v |-> cosmo_single_epoch,
               rho_bar |-> cosmo_single_epoch,
               _h |-> cosmo_single_epoch,
               local_hod |-> input_hod,
               n_bar_over_rho_bar |-> NoSpline,
               n_bar |-> NoSpline,
               _ln_r_v_spline |-> NoSpline,
               _ln_concen_spline |-> NoSpline,
               _ln_halo_norm_spline |-> NoSpline,
               _h_m_spline |-> NoSpline,
               _h_g_spline |-> NoSpline,
               _pp_mm_spline |-> NoSpline,
               _pp_gm_spline |-> NoSpline,
               _pp_gg_spline |-> NoSpline,
               _initialized_h_m |-> FALSE,
               _initialized_h_g |-> FALSE,
               _initialized_pp_mm |-> FALSE,
               _initialized_pp_gm |-> FALSE,
               _initialized_pp_gg |-> FALSE,
               halo_fit |-> NoSpline,
               sigma |-> NoSpline,
               _initialized_sigma_spline |-> FALSE,
               built |-> {},
               divmax_exhausted |-> FALSE,
               raised |-> "none"]
        h1 == _calculate_n_bar(h0)
        h2 == _initialize_halo_splines(h1)
    IN [h2 EXCEPT !._initialized_h_m = FALSE,
                  !._initialized_h_g = FALSE,
                  !._initialized_pp_mm = FALSE,
                  !._initialized_pp_gm = FALSE,
                  !._initialized_pp_gg = FALSE]

HaloFit__init__(redshift, input_hod, cosmo_single_epoch, halo_dict) ==
    LET h1 == Halo__init__("HaloFit", redshift, input_hod,
                           cosmo_single_epoch, halo_dict)
        h2 == _initialize_halo_fit(h1)
    IN [h2 EXCEPT !._initialized_sigma_spline = FALSE]

(* Construction as it would be if it fitted h_m eagerly.                   *)
Construct_eager_h_m(variant, redshift, input_hod, cosmo_single_epoch, halo_dict) ==
    _initialize_h_m(
        IF variant = "HaloFit"
        THEN HaloFit__init__(redshift, input_hod, cosmo_single_epoch,
                             halo_dict)
        ELSE Halo__init__(variant, redshift, input_hod, cosmo_single_epoch,
                          halo_dict))

(* Construction of an instance of the given class.                         *)
Construct(variant, redshift, input_hod, cosmo_single_epoch, halo_dict) ==
    IF variant = "HaloFit"
    THEN HaloFit__init__(redshift, input_hod, cosmo_single_epoch, halo_dict)
    ELSE Halo__init__(variant, redshift, input_hod, cosmo_single_epoch,
                      halo_dict)

----------------------------------------------------------------------------
(* Mutators.                                                               *)

(* self.mass.set_cosmology_object(self.cosmo)                              *)
mass_set_cosmology_object(m, cosmo) == [m EXCEPT !.cosmo = cosmo]

(* self.mass.set_halo(halo_dict)                                           *)
mass_set_halo(m, halo_dict) == [m EXCEPT !.halo_dict = halo_dict]

(* Clearing a term's flag: self._initialized_<term> = False.  The spline    *)
(* object fitted earlier stays in its attribute; of such a spline the      *)
(* model keeps that it is out of date (Superseded), not what it was        *)
(* fitted from.  An attribute never assigned stays unassigned.             *)
Aged(spline) == IF spline = NoSpline THEN NoSpline ELSE Superseded

clear_h_m(h) ==
    [h EXCEPT !._initialized_h_m = FALSE, !._h_m_spline = Aged(@)]

clear_h_g(h) ==
    [h EXCEPT !._initialized_h_g = FALSE, !._h_g_spline = Aged(@)]

clear_pp_mm(h) ==
    [h EXCEPT !._initialized_pp_mm = FALSE, !._pp_mm_spline = Aged(@)]

clear_pp_gm(h) ==
    [h EXCEPT !._initialized_pp_gm = FALSE, !._pp_gm_spline = Aged(@)]

clear_pp_gg(h) ==
    [h EXCEPT !._initialized_pp_gg = FALSE, !._pp_gg_spline = Aged(@)]

(* set_cosmology as it would be had it left the h_m flag alone.            *)
set_cosmology_keeps_h_m(h, cosmo_dict, redshift_arg) ==
    LET redshift == IF redshift_arg = None THEN h._redshift ELSE redshift_arg
        cosmo == SingleEpoch(redshift, cosmo_dict)
        h1 == [h EXCEPT !.cosmo_dict = cosmo_dict,
                        !._redshift = redshift,
                        !.cosmo = cosmo,
                        !.delta_v = cosmo,
                        !.rho_bar = cosmo,
                        !._h = cosmo,
                        !.c0 = ScaledC0(h.halo_dict, redshift),
                        !.mass = mass_set_cosmology_object(@, cosmo)]
        h2 == _calculate_n_bar(h1)
        h3 == _initialize_halo_splines(h2)
    IN clear_pp_gg(clear_pp_gm(clear_pp_mm(clear_h_g(h3))))

set_cosmology(h, cosmo_dict, redshift_arg) ==
    LET redshift == IF redshift_arg = None THEN h._redshift ELSE redshift_arg
        cosmo == SingleEpoch(redshift, cosmo_dict)
        h1 == [h EXCEPT !.cosmo_dict = cosmo_dict,
                        !._redshift = redshift,
                        !.cosmo = cosmo,
                        !.delta_v = cosmo,
                        !.rho_bar = cosmo,
                        !._h = cosmo,
                        !.c0 = ScaledC0(h.halo_dict, redshift),
                        !.mass = mass_set_cosmology_object(@, cosmo)]
        h2 == _calculate_n_bar(h1)
        h3 == _initialize_halo_splines(h2)
    IN clear_pp_gg(clear_pp_gm(clear_pp_mm(clear_h_g(clear_h_m(h3)))))

(* set_hod as it would be had it left the h_g flag alone.                  *)
set_hod_keeps_h_g(h, input_hod) ==
    LET h1 == _calculate_n_bar([h EXCEPT !.local_hod = input_hod])
    IN clear_pp_gg(clear_pp_gm(clear_pp_mm(h1)))

(* set_hod as it would be without the call of _calculate_n_bar.            *)
set_hod_stale_n_bar(h, input_hod) ==
    LET h1 == [h EXCEPT !.local_hod = input_hod]
    IN clear_pp_gg(clear_pp_gm(clear_pp_mm(clear_h_g(h1))))

set_hod(h, input_hod) ==
    LET h1 == _calculate_n_bar([h EXCEPT !.local_hod = input_hod])
    IN clear_pp_gg(clear_pp_gm(clear_pp_mm(clear_h_g(h1))))

(* halo_dict["c0"] of a dictionary without that key raises KeyError in    *)
(* the first statement; any value that is present is stored unexamined.    *)
set_halo(h, halo_dict) ==
    IF halo_dict = MissingKeyHaloDict
    THEN [h EXCEPT !.raised = "KeyError"]
    ELSE LET h1 == [h EXCEPT !.c0 = ScaledC0(halo_dict, h._redshift),
                             !.beta = halo_dict,
                             !.alpha = -1,
                             !.mass = mass_set_halo(@, halo_dict)]
         IN set_hod(h1, h1.local_hod)

(* copy.copy(input_halo): a new instance whose attributes are bound to the *)
(* same objects and values as those of input_halo.                         *)
copy(input_halo) == input_halo

(* set_redshift as it would be without the comparison of redshifts.        *)
set_redshift_unconditional(h, redshift) ==
    set_cosmology(h, h.cosmo.cosmo_dict, redshift)

(* set_redshift as it would be if it only stored the redshift.             *)
set_redshift_store_only(h, redshift) == [h EXCEPT !._redshift = redshift]

set_redshift(h, redshift) ==
    IF redshift # h._redshift
    THEN set_cosmology(h, h.cosmo.cosmo_dict, redshift)
    ELSE h

----------------------------------------------------------------------------
(* Readers of the term splines: numpy.where(k_min <= k <= k_max,           *)
(* spline(log k), 0.0).  The spline is evaluated for every k, so a spline  *)
(* attribute that was never assigned raises AttributeError.                *)

SplineAt(spline, k) ==
    IF spline = NoSpline THEN AttributeError
    ELSE IF k >= k_min /\ k <= k_max
         THEN [kind |-> "spline", spline |-> spline, k |-> k]
         ELSE Zero

_h_m(h, k) == SplineAt(h._h_m_spline, k)
_pp_mm(h, k) == SplineAt(h._pp_mm_spline, k)
_pp_gm(h, k) == SplineAt(h._pp_gm_spline, k)
_h_g(h, k) == SplineAt(h._h_g_spline, k)
_pp_gg(h, k) == SplineAt(h._pp_gg_spline, k)

linear_power(h, k) == [kind |-> "linear_power", cosmo |-> h.cosmo, k |-> k]

(* The record of one term read: the term and its flag when it was read.    *)
Flag(h, term) ==
    CASE term = "h_m" -> h._initialized_h_m
      [] term = "h_g" -> h._initialized_h_g
      [] term = "pp_mm" -> h._initialized_pp_mm
      [] term = "pp_gm" -> h._initialized_pp_gm
      [] term = "pp_gg" -> h._initialized_pp_gg

Read(h, term) == [term |-> term, valid |-> Flag(h, term)]

----------------------------------------------------------------------------
(* Power spectra.  Each returns the instance after the call, the value     *)
(* returned and the term reads performed.                                  *)

(* Halo.power_mm as it would be if it also fitted h_g.                     *)
Halo_power_mm_fits_h_g(h, k) ==
    LET h1 == IF ~h._initialized_h_m THEN _initialize_h_m(h) ELSE h
        h2 == IF ~h1._initialized_pp_mm THEN _initialize_pp_mm(h1) ELSE h1
        h3 == IF ~h2._initialized_h_g THEN _initialize_h_g(h2) ELSE h2
    IN [self |-> h3,
        value |-> Add(Mul(Mul(linear_power(h3, k), _h_m(h3, k)), _h_m(h3, k)),
                      _pp_mm(h3, k)),
        reads |-> {Read(h3, "h_m"), Read(h3, "pp_mm")}]

Halo_power_mm(h, k) ==
    LET h1 == IF ~h._initialized_h_m THEN _initialize_h_m(h) ELSE h
        h2 == IF ~h1._initialized_pp_mm THEN _initialize_pp_mm(h1) ELSE h1
    IN [self |-> h2,
        value |-> Add(Mul(Mul(linear_power(h2, k), _h_m(h2, k)), _h_m(h2, k)),
                      _pp_mm(h2, k)),
        reads |-> {Read(h2, "h_m"), Read(h2, "pp_mm")}]

HaloFit_power_mm(h, k) ==
    LET h1 == IF ~h._initialized_sigma_spline
              THEN _initialize_sigma_spline(h) ELSE h
    IN [self |-> h1,
        value |-> [kind |-> "halofit", k |-> k, delta_k |-> h1.cosmo,
                   sigma |-> h1.sigma, halo_fit |-> h1.halo_fit],
        reads |-> {}]

power_mm(h, k) ==
    IF h.variant = "HaloFit" THEN HaloFit_power_mm(h, k)
    ELSE Halo_power_mm(h, k)

Halo_power_gm(h, k) ==
    LET h1 == IF ~h._initialized_h_m THEN _initialize_h_m(h) ELSE h
        h2 == IF ~h1._initialized_h_g THEN _initialize_h_g(h1) ELSE h1
        h3 == IF ~h2._initialized_pp_gm THEN _initialize_pp_gm(h2) ELSE h2
    IN [self |-> h3,
        value |-> Add(Mul(Mul(linear_power(h3, k), _h_g(h3, k)), _h_m(h3, k)),
                      _pp_gm(h3, k)),
        reads |-> {Read(h3, "h_g"), Read(h3, "h_m"), Read(h3, "pp_gm")}]

HaloExclusion_power_gm(h, k) ==
    LET h1 == IF ~h._initialized_h_g THEN _initialize_h_g(h) ELSE h
        h2 == IF ~h1._initialized_pp_gg THEN _initialize_pp_gm(h1) ELSE h1
        mm == power_mm(h2, k)
        h3 == mm.self
    IN [self |-> h3,
        value |-> Add(Mul(Mul(mm.value, _h_g(h3, k)), _h_m(h3, k)),
                      _pp_gm(h3, k)),
        reads |-> mm.reads
                  \cup {Read(h3, "h_g"), Read(h3, "h_m"), Read(h3, "pp_gm")}]

HaloFit_power_gm(h, k) ==
    LET h1 == IF ~h._initialized_h_m THEN _initialize_h_m(h) ELSE h
        h2 == IF ~h1._initialized_h_g THEN _initialize_h_g(h1) ELSE h1
        h3 == IF ~h2._initialized_pp_gm THEN _initialize_pp_gm(h2) ELSE h2
        mm == power_mm(h3, k)
        h4 == mm.self
    IN [self |-> h4,
        value |-> Add(Mul(Mul(mm.value, _h_g(h4, k)), _h_m(h4, k)),
                      _pp_gm(h4, k)),
        reads |-> mm.reads
                  \cup {Read(h4, "h_g"), Read(h4, "h_m"), Read(h4, "pp_gm")}]

power_gm(h, k) ==
    CASE h.variant = "Halo" -> Halo_power_gm(h, k)
      [] h.variant = "HaloExclusion" -> HaloExclusion_power_gm(h, k)
      [] h.variant = "HaloFit" -> HaloFit_power_gm(h, k)

(* power_mg is defined in each of the three classes as                     *)
(* return self.power_gm(k), a call dispatched on the instance's class.     *)
Halo_power_mg(h, k) == power_gm(h, k)

(* HaloExclusion.power_mg as it would be if it called Halo.power_gm.       *)
HaloExclusion_power_mg_base(h, k) == Halo_power_gm(h, k)

HaloExclusion_power_mg(h, k) == power_gm(h, k)

HaloFit_power_mg(h, k) == power_gm(h, k)

power_mg(h, k) ==
    CASE h.variant = "Halo" -> Halo_power_mg(h, k)
      [] h.variant = "HaloExclusion" -> HaloExclusion_power_mg(h, k)
      [] h.variant = "HaloFit" -> HaloFit_power_mg(h, k)

(* Halo.power_gg as it would be with the pp_gm flag guarding pp_gg.        *)
Halo_power_gg_wrong_flag(h, k) ==
    LET h1 == IF ~h._initialized_h_g THEN _initialize_h_g(h) ELSE h
        h2 == IF ~h1._initialized_pp_gm THEN _initialize_pp_gg(h1) ELSE h1
    IN [self |-> h2,
        value |-> Add(Mul(Mul(linear_power(h2, k), _h_g(h2, k)), _h_g(h2, k)),
                      _pp_gg(h2, k)),
        reads |-> {Read(h2, "h_g"), Read(h2, "pp_gg")}]

Halo_power_gg(h, k) ==
    LET h1 == IF ~h._initialized_h_g THEN _initialize_h_g(h) ELSE h
        h2 == IF ~h1._initialized_pp_gg THEN _initialize_pp_gg(h1) ELSE h1
    IN [self |-> h2,
        value |-> Add(Mul(Mul(linear_power(h2, k), _h_g(h2, k)), _h_g(h2, k)),
                      _pp_gg(h2, k)),
        reads |-> {Read(h2, "h_g"), Read(h2, "pp_gg")}]

(* HaloExclusion.power_gg as it would be with the linear power spectrum    *)
(* as the 2-halo factor.                                                   *)
NonLinear_power_gg_linear(h, k) ==
    LET h1 == IF ~h._initialized_h_g THEN _initialize_h_g(h) ELSE h
        h2 == IF ~h1._initialized_pp_gg THEN _initialize_pp_gg(h1) ELSE h1
        mm == power_mm(h2, k)
        h3 == mm.self
    IN [self |-> h3,
        value |-> Add(Mul(Mul(linear_power(h3, k), _h_g(h3, k)), _h_g(h3, k)),
                      _pp_gg(h3, k)),
        reads |-> mm.reads \cup {Read(h3, "h_g"), Read(h3, "pp_gg")}]

(* HaloExclusion.power_gg and HaloFit.power_gg have the same body.         *)
NonLinear_power_gg(h, k) ==
    LET h1 == IF ~h._initialized_h_g THEN _initialize_h_g(h) ELSE h
        h2 == IF ~h1._initialized_pp_gg THEN _initialize_pp_gg(h1) ELSE h1
        mm == power_mm(h2, k)
        h3 == mm.self
    IN [self |-> h3,
        value |-> Add(Mul(Mul(mm.value, _h_g(h3, k)), _h_g(h3, k)),
                      _pp_gg(h3, k)),
        reads |-> mm.reads \cup {Read(h3, "h_g"), Read(h3, "pp_gg")}]

power_gg(h, k) ==
    IF h.variant = "Halo" THEN Halo_power_gg(h, k)
    ELSE NonLinear_power_gg(h, k)

----------------------------------------------------------------------------------------------------------------------------------------
(* The state machine: one instance, one action per public method.  The     *)
(* cache state a power_* call leaves behind does not depend on k, and the  *)
(* value it returns is a function of the state it is called in, so the     *)
(* state keeps the instance and the name of the method called last.        *)

(* The instance on entry to a public method: nothing built yet.            *)
Entered(h) ==
    [h EXCEPT !.built = {}, !.divmax_exhausted = FALSE, !.raised = "none"]

(* The instance on entry to a public method during which the quadratures   *)
(* do (exhausted) or do not exhaust divmax.                                *)
Running(h, exhausted) == [Entered(h) EXCEPT !.divmax_exhausted = exhausted]

(* self.mass is assigned once, in __init__, and mutated in place after     *)
(* that: an instance and its copy hold the same MassFunction object, so    *)
(* what one instance does to it the other instance reads.                  *)
SharedMass(other, h) ==
    IF other = NoHalo THEN NoHalo ELSE [other EXCEPT !.mass = h.mass]

(* An instance of one of the three classes, constructed with the default  *)
(* arguments; every other parameter value is reached through the mutators. *)
Init ==
    \E variant \in Variants :
        /\ self = Entered(Construct(variant, DefaultRedshift, DefaultHod,
                            SingleEpoch(DefaultRedshift, DefaultCosmoDict),
                            DefaultHaloDict))
        /\ call = "__init__"
        /\ halo_b = NoHalo
        /\ rebuild = NoRebuild
        /\ cov = NoCovariance

SetCosmology ==
    \E cosmo_dict \in CosmoDicts, redshift \in Redshifts \cup {None} :
        /\ self' = Entered(set_cosmology(self, cosmo_dict, redshift))
        /\ call' = "set_cosmology"
        /\ halo_b' = SharedMass(halo_b, self')
        /\ UNCHANGED <<rebuild, cov>>

SetHod ==
    \E input_hod \in Hods :
        /\ self' = Entered(set_hod(self, input_hod))
        /\ call' = "set_hod"
        /\ halo_b' = SharedMass(halo_b, self')
        /\ UNCHANGED <<rebuild, cov>>

SetHalo ==
    \E halo_dict \in HaloDicts :
        /\ self' = Entered(set_halo(self, halo_dict))
        /\ call' = "set_halo"
        /\ halo_b' = SharedMass(halo_b, self')
        /\ UNCHANGED <<rebuild, cov>>

SetRedshift ==
    \E redshift \in Redshifts :
        /\ self' = Entered(set_redshift(self, redshift))
        /\ call' = "set_redshift"
        /\ halo_b' = SharedMass(halo_b, self')
        /\ UNCHANGED <<rebuild, cov>>

PowerMM ==
    \E k \in KSamples :
        /\ self' = Entered(power_mm(self, k).self)
        /\ call' = "power_mm"
        /\ halo_b' = SharedMass(halo_b, self')
        /\ UNCHANGED <<rebuild, cov>>

PowerGM ==
    \E k \in KSamples :
        /\ self' = Entered(power_gm(self, k).self)
        /\ call' = "power_gm"
        /\ halo_b' = SharedMass(halo_b, self')
        /\ UNCHANGED <<rebuild, cov>>

PowerMG ==
    \E k \in KSamples :
        /\ self' = Entered(power_mg(self, k).self)
        /\ call' = "power_mg"
        /\ halo_b' = SharedMass(halo_b, self')
        /\ UNCHANGED <<rebuild, cov>>

PowerGG ==
    \E k \in KSamples :
        /\ self' = Entered(power_gg(self, k).self)
        /\ call' = "power_gg"
        /\ halo_b' = SharedMass(halo_b, self')
        /\ UNCHANGED <<rebuild, cov>>

Next ==
    \/ SetCosmology
    \/ SetHod
    \/ SetHalo
    \/ SetRedshift
    \/ PowerMM
    \/ PowerGM
    \/ PowerMG
    \/ PowerGG

Spec == Init /\ [][Next]_vars

(* The same machine without set_halo.                                      *)
NextNoSetHalo ==
    \/ SetCosmology
    \/ SetHod
    \/ SetRedshift
    \/ PowerMM
    \/ PowerGM
    \/ PowerMG
    \/ PowerGG

SpecNoSetHalo == Init /\ [][NextNoSetHalo]_vars

(* The machine with the inputs that nothing in halo.py examines: a HOD     *)
(* with zero occupation, halo dictionaries with a missing key or a value   *)
(* outside its domain, and quadratures that exhaust divmax.                *)
SetHodUnchecked ==
    \E input_hod \in Hods \cup {ZeroHod}, exhausted \in BOOLEAN :
        /\ self' = Entered(set_hod(Running(self, exhausted), input_hod))
        /\ call' = "set_hod"
        /\ halo_b' = SharedMass(halo_b, self')
        /\ UNCHANGED <<rebuild, cov>>

SetHaloUnchecked ==
    \E halo_dict \in HaloDicts \cup {MissingKeyHaloDict, OutOfDomainHaloDict} :
        /\ self' = Entered(set_halo(Entered(self), halo_dict))
        /\ call' = "set_halo"
        /\ halo_b' = SharedMass(halo_b, self')
        /\ UNCHANGED <<rebuild, cov>>

PowerMMUnchecked ==
    \E k \in KSamples, exhausted \in BOOLEAN :
        /\ self' = Entered(power_mm(Running(self, exhausted), k).self)
        /\ call' = "power_mm"
        /\ halo_b' = SharedMass(halo_b, self')
        /\ UNCHANGED <<rebuild, cov>>

PowerGMUnchecked ==
    \E k \in KSamples, exhausted \in BOOLEAN :
        /\ self' = Entered(power_gm(Running(self, exhausted), k).self)
        /\ call' = "power_gm"
        /\ halo_b' = SharedMass(halo_b, self')
        /\ UNCHANGED <<rebuild, cov>>

PowerGGUnchecked ==
    \E k \in KSamples, exhausted \in BOOLEAN :
        /\ self' = Entered(power_gg(Running(self, exhausted), k).self)
        /\ call' = "power_gg"
        /\ halo_b' = SharedMass(halo_b, self')
        /\ UNCHANGED <<rebuild, cov>>

NextUnchecked ==
    \/ SetHodUnchecked
    \/ SetHaloUnchecked
    \/ PowerMMUnchecked
    \/ PowerGMUnchecked
    \/ PowerGGUnchecked

SpecUnchecked == Init /\ [][NextUnchecked]_vars

(* The machine of covariance.py: Covariance.__init__ keeps input_halo as   *)
(* halo_a (self here) and copy(input_halo) as halo_b;                      *)
(* _initialize_halo_splines sets the redshift of each and reads power_mm   *)
(* of each.                                                                *)
CovarianceInit ==
    /\ halo_b = NoHalo
    /\ halo_b' = Entered(copy(self))
    /\ self' = self
    /\ call' = "copy"
    /\ UNCHANGED <<rebuild, cov>>

HaloBSetRedshift ==
    /\ halo_b # NoHalo
    /\ \E redshift \in Redshifts :
           /\ halo_b' = Entered(set_redshift(halo_b, redshift))
           /\ self' = SharedMass(self, halo_b')
           /\ call' = "halo_b.set_redshift"
           /\ UNCHANGED <<rebuild, cov>>

HaloBPowerMM ==
    /\ halo_b # NoHalo
    /\ \E k \in KSamples :
           /\ halo_b' = Entered(power_mm(halo_b, k).self)
           /\ self' = SharedMass(self, halo_b')
           /\ call' = "halo_b.power_mm"
           /\ UNCHANGED <<rebuild, cov>>

NextCovariance ==
    \/ CovarianceInit
    \/ SetRedshift
    \/ SetHalo
    \/ PowerMM
    \/ HaloBSetRedshift
    \/ HaloBPowerMM

SpecCovariance == Init /\ [][NextCovariance]_vars

----------------------------------------------------------------------------
(* Properties.                                                             *)

Terms == {"h_m", "h_g", "pp_mm", "pp_gm", "pp_gg"}

AllCleared(h) == \A t \in Terms : ~Flag(h, t)

InDomain(k) == k >= k_min /\ k <= k_max

(* The splines of the halo geometry as _initialize_halo_splines fits them  *)
(* from the instance's present attributes.                                 *)
GeometryCurrent(h) ==
    /\ h._ln_r_v_spline = [grid |-> h.mass, value |-> _virial_radius(h)]
    /\ h._ln_concen_spline = [grid |-> h.mass, value |-> _concentration(h)]
    /\ h._ln_halo_norm_spline =
           [grid |-> h.mass, value |-> _halo_normalization(h)]

NBarCurrent(h) ==
    /\ h.n_bar_over_rho_bar = _nbar_integrand(h)
    /\ h.n_bar = [n_bar_over_rho_bar |-> _nbar_integrand(h),
                  rho_bar |-> h.rho_bar]

(* A read rebuilds every term it finds invalid before evaluating it.       *)
ReadsRebuilt(h, r) ==
    \A rd \in r.reads :
        /\ rd.valid
        /\ ~Flag(h, rd.term) => rd.term \in r.self.built

(* C1: in the Standard variant, in every reachable state, each of          *)
(* power_mm, power_gm, power_mg and power_gg evaluates only term splines   *)
(* whose flag is true at the moment of the read, and a term whose flag was *)
(* false on entry has been rebuilt by the call before it is read.          *)
C1_ReadsOnlyValidTerms ==
    self.variant = "Halo" =>
        \A k \in KSamples :
            /\ ReadsRebuilt(self, power_mm(self, k))
            /\ ReadsRebuilt(self, power_gm(self, k))
            /\ ReadsRebuilt(self, power_mg(self, k))
            /\ ReadsRebuilt(self, power_gg(self, k))

(* A Standard instance that has built pp_gg, been through set_cosmology    *)
(* and then rebuilt h_g and pp_gg in a power_gg call.                      *)
C1_Witness ==
    /\ self.variant = "Halo"
    /\ call = "power_gg"
    /\ self.cosmo_dict # None
    /\ self._initialized_h_g /\ self._initialized_pp_gg
    /\ self._h_m_spline = Superseded

(* C2: set_hod leaves the flags of the matter-only terms h_m and pp_mm as  *)
(* they were before the call.                                              *)
C2_SetHodKeepsMatterFlags ==
    [][call' = "set_hod" =>
          /\ self'._initialized_h_m = self._initialized_h_m
          /\ self'._initialized_pp_mm = self._initialized_pp_mm]_vars

(* C3: after set_halo all five terms are marked invalid.                   *)
C3_SetHaloClearsAllFlags == call = "set_halo" => AllCleared(self)

(* C4: after set_halo, the concentration that the next term rebuild reads  *)
(* is derived from the c0 and beta that set_halo stored.                   *)
C4_SetHaloRefitsConcentration ==
    call = "set_halo" =>
        \A k \in KSamples :
            LET con == power_gg(self, k).self._h_g_spline.integrand.y.concentration
            IN /\ con.value.c0 = self.c0
               /\ con.value.beta = self.beta

(* C5: from every reachable state, set_cosmology(cosmo_dict, redshift)     *)
(* refits the geometry splines and recomputes n-bar from the new cosmology *)
(* object and leaves all five terms marked invalid.                        *)
C5_SetCosmologyInvalidatesAll ==
    \A cosmo_dict \in CosmoDicts, redshift \in Redshifts \cup {None} :
        LET new == SingleEpoch(IF redshift = None THEN self._redshift
                               ELSE redshift, cosmo_dict)
            h == set_cosmology(self, cosmo_dict, redshift)
        IN /\ AllCleared(h)
           /\ h.cosmo = new /\ h.rho_bar = new /\ h.delta_v = new
           /\ h.mass.cosmo = new
           /\ {"n_bar", "halo_splines"} \subseteq h.built
           /\ GeometryCurrent(h)
           /\ NBarCurrent(h)

(* An instance whose h_m and pp_gg had been built, after set_cosmology     *)
(* gave it the second cosmology dictionary.                                *)
C5_Witness ==
    /\ call = "set_cosmology"
    /\ self.cosmo.cosmo_dict # DefaultCosmoDict
    /\ self._h_m_spline = Superseded /\ ~self._initialized_h_m
    /\ self._pp_gg_spline = Superseded /\ ~self._initialized_pp_gg

(* C6: from every reachable state, set_redshift(z) with z other than the   *)
(* current redshift leaves the instance as set_cosmology(current           *)
(* cosmology parameters, z) does: redshift z stored, geometry and n-bar    *)
(* derived at z, all five terms invalid.                                   *)
C6_SetRedshiftIsCosmologyChange ==
    \A z \in Redshifts :
        z # self._redshift =>
            LET new == SingleEpoch(z, self.cosmo.cosmo_dict)
                h == set_redshift(self, z)
            IN /\ h._redshift = z
               /\ h.cosmo = new /\ h.rho_bar = new /\ h.delta_v = new
               /\ h.mass.cosmo = new
               /\ AllCleared(h)
               /\ GeometryCurrent(h)
               /\ NBarCurrent(h)
               /\ h = set_cosmology(self, self.cosmo.cosmo_dict, z)

(* An instance moved off the construction redshift by set_redshift after   *)
(* it had built h_m.                                                       *)
C6_Witness ==
    /\ call = "set_redshift"
    /\ self._redshift # DefaultRedshift
    /\ self.cosmo.redshift = self._redshift
    /\ self._h_m_spline = Superseded /\ ~self._initialized_h_m

(* An instance newly constructed from the present cosmology object,        *)
(* redshift, HOD and halo dictionary of h.                                 *)
Fresh(h) ==
    Entered(Construct(h.variant, h._redshift, h.local_hod, h.cosmo,
                      h.halo_dict))

(* C7: without set_halo, in every reachable state of a Standard instance   *)
(* power_mm, power_gm and power_gg return what a newly constructed         *)
(* instance with the present cosmology, redshift and HOD returns: no term  *)
(* fitted before the last mutation that affects it enters the result.      *)
C7_ValuesFromCurrentParameters ==
    self.variant = "Halo" =>
        \A k \in KSamples :
            /\ power_mm(self, k).value = power_mm(Fresh(self), k).value
            /\ power_gm(self, k).value = power_gm(Fresh(self), k).value
            /\ power_gg(self, k).value = power_gg(Fresh(self), k).value

(* A Standard instance with h_m, h_g and pp_gg valid after its cosmology   *)
(* and then its HOD were replaced and power_gm and power_gg were read.     *)
C7_Witness ==
    /\ self.variant = "Halo"
    /\ call = "power_gg"
    /\ self.cosmo.cosmo_dict # DefaultCosmoDict
    /\ self.local_hod # DefaultHod
    /\ self._initialized_h_m /\ self._initialized_h_g
    /\ self._initialized_pp_gg
    /\ self._pp_mm_spline = Superseded

(* C8: a power_mm call that follows a power_mm call returns the same       *)
(* value, builds nothing and leaves every flag and spline as the first     *)
(* call left it.                                                           *)
C8_SecondPowerMMBuildsNothing ==
    [][call' = "power_mm" =>
          \A k \in KSamples :
              LET first == power_mm(self, k)
                  second == power_mm(self', k)
              IN /\ second.value = first.value
                 /\ second.self.built = {}
                 /\ Entered(second.self) = self']_vars

(* C8, for the classes that use Halo.power_mm (Halo and HaloExclusion):    *)
(* the second of two consecutive power_mm calls builds nothing.            *)
C8_HaloPowerMMBuildsNothing ==
    [][call' = "power_mm" /\ self.variant # "HaloFit" =>
          \A k \in KSamples :
              LET first == power_mm(self, k)
                  second == power_mm(self', k)
              IN /\ second.value = first.value
                 /\ second.self.built = {}
                 /\ Entered(second.self) = self']_vars

(* C9: from every reachable state, power_mm(k) returns after set_hod(x)    *)
(* what it returns before it, and power_gg(k) after set_hod(x) is built    *)
(* from x: h_g, pp_gg and n-bar read x's moments, and for k in the domain  *)
(* the value differs from the one before whenever x is another HOD.        *)
C9_SetHodSelective ==
    \A x \in Hods, k \in KSamples :
        LET after == set_hod(self, x)
            gg == power_gg(after, k)
        IN /\ power_mm(after, k).value = power_mm(self, k).value
           /\ {"h_g", "pp_gg"} \subseteq gg.self.built
           /\ gg.self._h_g_spline.integrand.first_moment = x
           /\ gg.self._h_g_spline.integrand.n_bar_over_rho_bar.first_moment = x
           /\ gg.self._pp_gg_spline.integrand.second_moment = x
           /\ gg.self._pp_gg_spline.integrand.n_bar.n_bar_over_rho_bar.first_moment = x
           /\ (InDomain(k) /\ x # self.local_hod =>
                   gg.value # power_gg(self, k).value)

(* An instance whose pp_mm, h_g and pp_gg had been built and h_m is still  *)
(* valid, after set_hod gave it another HOD.                               *)
C9_Witness ==
    /\ call = "set_hod"
    /\ self.local_hod # DefaultHod
    /\ self._initialized_h_m
    /\ self._pp_mm_spline = Superseded
    /\ self._h_g_spline = Superseded
    /\ self._pp_gg_spline = Superseded

(* C10: in every reachable state of each variant and for every k,          *)
(* power_mg(k) returns the value power_gm(k) returns, performs the same    *)
(* reads and leaves the same instance state.                               *)
C10_PowerMGIsPowerGM ==
    \A k \in KSamples : power_mg(self, k) = power_gm(self, k)

(* A HaloExclusion instance after power_mg, with h_m, h_g and pp_gm built. *)
C10_Witness ==
    /\ self.variant = "HaloExclusion"
    /\ call = "power_mg"
    /\ self._initialized_h_m /\ self._initialized_h_g
    /\ self._initialized_pp_gm

----------------------------------------------------------------------------
(* Properties of the boundary and error behaviour, of copies and of the    *)
(* integrands.                                                             *)

SplineOf(h, term) ==
    CASE term = "h_m" -> h._h_m_spline
      [] term = "h_g" -> h._h_g_spline
      [] term = "pp_mm" -> h._pp_mm_spline
      [] term = "pp_gm" -> h._pp_gm_spline
      [] term = "pp_gg" -> h._pp_gg_spline

(* A value that romberg returned after exhausting divmax.                  *)
Unconverged(v) == "estimate_of" \in DOMAIN v

(* The integrand a fitted spline was integrated from.                      *)
IntegrandOf(spline) ==
    IF Unconverged(spline.integrand) THEN spline.integrand.estimate_of
    ELSE spline.integrand

(* C11: in every reachable state of every variant, power_mm, power_gm,     *)
(* power_mg and power_gg return exactly 0.0, without an error, for k below *)
(* k_min or above k_max, and a spline evaluation (not the out-of-domain    *)
(* 0.0) for k = k_min and k = k_max.                                       *)
C11_OutOfDomainIsZero ==
    \A k \in KSamples :
        LET values == {power_mm(self, k).value, power_gm(self, k).value,
                       power_mg(self, k).value, power_gg(self, k).value}
        IN IF InDomain(k) THEN Zero \notin values ELSE values = {Zero}

(* C12: no term is marked valid, and no n-bar is stored, from a quadrature *)
(* that exhausted divmax: the call that ran it fails instead.              *)
C12_NoTermFromUnconvergedIntegral ==
    /\ ~Unconverged(self.n_bar_over_rho_bar)
    /\ \A t \in Terms :
           Flag(self, t) => ~Unconverged(SplineOf(self, t).integrand)

(* C13: set_halo with a dictionary that lacks a required key or holds a    *)
(* value outside its domain raises ConfigurationError, and no value of     *)
(* such a dictionary is ever stored in the instance.                       *)
C13_InvalidParametersRaiseConfigurationError ==
    /\ \A halo_dict \in {MissingKeyHaloDict, OutOfDomainHaloDict} :
           set_halo(Entered(self), halo_dict).raised = "ConfigurationError"
    /\ self.beta \in HaloDicts

(* C14: an n-bar of 0 is never stored (the operation that computes it      *)
(* raises ConfigurationError), and no valid galaxy term was built with an  *)
(* n-bar of 0 as its divisor.                                              *)
C14_ZeroNBarIsRejected ==
    /\ self.n_bar_over_rho_bar # Zero
    /\ self._initialized_h_g =>
           IntegrandOf(self._h_g_spline).n_bar_over_rho_bar # Zero
    /\ self._initialized_pp_gm =>
           self._pp_gm_spline.norm.n_bar_over_rho_bar # Zero
    /\ self._initialized_pp_gg =>
           IntegrandOf(self._pp_gg_spline).n_bar.n_bar_over_rho_bar # Zero

(* C15: the copy that Covariance.__init__ makes of an instance has all     *)
(* five flags false and holds none of the splines of the original.         *)
C15_CloneStartsInvalid ==
    call = "copy" =>
        /\ AllCleared(halo_b)
        /\ \A t \in Terms : SplineOf(halo_b, t) = NoSpline

(* C16: once a copy exists, the mass function each of the two instances    *)
(* reads holds that instance's own cosmology object, and every valid term  *)
(* of an instance was integrated over a mass function of its own           *)
(* cosmology, whatever was done to the other instance.                     *)
C16_CloneReadsOwnMassFunction ==
    halo_b # NoHalo =>
        \A h \in {self, halo_b} :
            /\ h.mass.cosmo = h.cosmo
            /\ \A t \in {"h_m", "pp_mm"} :
                   Flag(h, t) =>
                       IntegrandOf(SplineOf(h, t)).mass.cosmo = h.cosmo

(* C17: construction of any variant with any parameters leaves the five    *)
(* flags false and the five term splines unassigned; no mutator marks a    *)
(* term valid, and a power_* call builds only terms that it reads.         *)
C17_ConstructionLeavesCachesInvalid ==
    /\ call = "__init__" =>
           /\ AllCleared(self)
           /\ \A t \in Terms : SplineOf(self, t) = NoSpline
    /\ \A variant \in Variants, redshift \in Redshifts, input_hod \in Hods,
          cosmo_dict \in CosmoDicts, halo_dict \in HaloDicts :
           LET h == Construct(variant, redshift, input_hod,
                              SingleEpoch(redshift, cosmo_dict), halo_dict)
           IN /\ AllCleared(h)
              /\ \A t \in Terms : SplineOf(h, t) = NoSpline
              /\ h.built \cap Terms = {}
    /\ \A t \in Terms :
           ~Flag(self, t) =>
               /\ \A x \in Hods : ~Flag(set_hod(self, x), t)
               /\ \A d \in HaloDicts : ~Flag(set_halo(self, d), t)
               /\ \A z \in Redshifts : ~Flag(set_redshift(self, z), t)
               /\ \A c \in CosmoDicts : ~Flag(set_cosmology(self, c, None), t)
    /\ \A k \in KSamples :
           /\ power_mm(self, k).self.built \cap Terms
                  \subseteq {rd.term : rd \in power_mm(self, k).reads}
           /\ power_gm(self, k).self.built \cap Terms
                  \subseteq {rd.term : rd \in power_gm(self, k).reads}
           /\ power_gg(self, k).self.built \cap Terms
                  \subseteq {rd.term : rd \in power_gg(self, k).reads}

(* A HaloExclusion instance as its constructor left it.                    *)
C17_Witness ==
    /\ call = "__init__"
    /\ self.variant = "HaloExclusion"
    /\ AllCleared(self)
    /\ self._h_m_spline = NoSpline
    /\ self._ln_concen_spline # NoSpline

(* C18: at every mass the pp_gm integrand carries y to the power 1 exactly *)
(* when the first moment is below 1 and the pp_gg integrand exactly when   *)
(* the second moment is below 1; otherwise, a moment of exactly 1          *)
(* included, y is squared.  This holds of the integrand of every HOD and   *)
(* of every valid pp_gm and pp_gg spline.                                  *)
C18_SinglePowerOfYBelowOne ==
    /\ \A x \in Hods, mass \in Masses :
           LET h == set_hod(self, x)
               gm == _pp_gm_integrand(h).y_power[mass]
               gg == _pp_gg_integrand(h).y_power[mass]
           IN /\ gm \in {1, 2} /\ gg \in {1, 2}
              /\ gm = 1 <=> first_moment(x, mass) < Unity
              /\ gg = 1 <=> second_moment(x, mass) < Unity
              /\ first_moment(x, mass) = Unity => gm = 2
              /\ second_moment(x, mass) = Unity => gg = 2
    /\ \A mass \in Masses :
           /\ self._initialized_pp_gm =>
                  (self._pp_gm_spline.integrand.y_power[mass] = 1
                       <=> first_moment(self.local_hod, mass) < Unity)
           /\ self._initialized_pp_gg =>
                  (self._pp_gg_spline.integrand.y_power[mass] = 1
                       <=> second_moment(self.local_hod, mass) < Unity)

(* An instance with pp_gm and pp_gg valid whose HOD has a first moment     *)
(* below 1 at one mass, exactly 1 at another and above 1 at a third.       *)
C18_Witness ==
    /\ self._initialized_pp_gm /\ self._initialized_pp_gg
    /\ \E m1, m2, m3 \in Masses :
           /\ first_moment(self.local_hod, m1) < Unity
           /\ first_moment(self.local_hod, m2) = Unity
           /\ first_moment(self.local_hod, m3) > Unity
           /\ self._pp_gm_spline.integrand.y_power[m1] = 1
           /\ self._pp_gm_spline.integrand.y_power[m2] = 2
           /\ self._pp_gm_spline.integrand.y_power[m3] = 2
           /\ second_moment(self.local_hod, m2) = Unity
           /\ self._pp_gg_spline.integrand.y_power[m2] = 2

(* The 2-halo factor of the galaxy spectra: the linear power spectrum in   *)
(* Halo, the instance's own power_mm in HaloExclusion and HaloFit.         *)
TwoHaloFactor(h, k) ==
    IF h.variant = "Halo" THEN linear_power(h, k) ELSE power_mm(h, k).value

(* C19: in every reachable state and for every k, with the terms as the    *)
(* call leaves them, power_gm = T*h_g*h_m + pp_gm and                      *)
(* power_gg = T*h_g*h_g + pp_gg with T the 2-halo factor of the variant,   *)
(* and power_mm of Halo and HaloExclusion is P_lin*h_m*h_m + pp_mm.        *)
C19_TermsCombined ==
    \A k \in KSamples :
        LET gm == power_gm(self, k)
            gg == power_gg(self, k)
            mm == power_mm(self, k)
        IN /\ gm.value =
                  Add(Mul(Mul(TwoHaloFactor(gm.self, k), _h_g(gm.self, k)),
                          _h_m(gm.self, k)),
                      _pp_gm(gm.self, k))
           /\ gg.value =
                  Add(Mul(Mul(TwoHaloFactor(gg.self, k), _h_g(gg.self, k)),
                          _h_g(gg.self, k)),
                      _pp_gg(gg.self, k))
           /\ self.variant # "HaloFit" =>
                  mm.value =
                      Add(Mul(Mul(linear_power(mm.self, k), _h_m(mm.self, k)),
                              _h_m(mm.self, k)),
                          _pp_mm(mm.self, k))

(* A HaloFit instance after power_gg, with h_g and pp_gg valid.            *)
C19_Witness ==
    /\ self.variant = "HaloFit"
    /\ call = "power_gg"
    /\ self._initialized_h_g /\ self._initialized_pp_gg
    /\ self.sigma # NoSpline

(* C20: in HaloFit, after a power_mm call the sigma-squared spline is      *)
(* marked as built and a further power_mm call does not build it again.    *)
C20_SigmaSplineBuiltOnce ==
    self.variant = "HaloFit" /\ call = "power_mm" =>
        /\ self._initialized_sigma_spline
        /\ \A k \in KSamples : "sigma" \notin power_mm(self, k).self.built

----------------------------------------------------------------------------
(* Properties of the HaloExclusion guard, of the integration limits and of *)
(* what the mutators and reads leave alone.                                *)

(* C21: in every reachable state of a HaloExclusion instance, power_gm     *)
(* returns a value (the pp_gm spline it evaluates exists), every term it   *)
(* reads is valid when read, and a pp_gm that was invalid on entry has     *)
(* been rebuilt by the call.                                               *)
C21_ExclusionPowerGMRebuildsPPGM ==
    self.variant = "HaloExclusion" =>
        \A k \in KSamples :
            LET gm == HaloExclusion_power_gm(self, k)
            IN /\ ~IsError(gm.value)
               /\ gm.self._initialized_pp_gm
               /\ ~self._initialized_pp_gm => "pp_gm" \in gm.self.built

(* C22: a valid h_g of a Halo or HaloExclusion instance was integrated     *)
(* from nu(first_moment_zero) when the HOD's first_moment_zero is above -1 *)
(* and above the mass-function floor, and from nu_min otherwise.           *)
C22_HGLowerLimitFollowsFirstMomentZero ==
    self.variant \in {"Halo", "HaloExclusion"} /\ self._initialized_h_g =>
        LET zero == first_moment_zero(self.local_hod)
        IN self._h_g_spline.lower =
               IF zero > -1 /\ zero > MassFloor
               THEN [kind |-> "nu", mass |-> zero]
               ELSE [kind |-> "nu_min"]

(* The lower limit the builders are to use for a threshold.                *)
ExpectedLower(threshold) ==
    IF threshold > -1 /\ threshold > MassFloor
    THEN [kind |-> "nu", mass |-> threshold]
    ELSE [kind |-> "nu_min"]

(* C23: a valid pp_gm was integrated from the limit given by the HOD's     *)
(* first_moment_zero and a valid pp_gg from the one given by its           *)
(* second_moment_zero, each applied only when above -1 and above the       *)
(* floor; valid h_m and pp_mm, and bias, m_eff and f_sat computed in any   *)
(* reachable state, were integrated from nu_min.                           *)
C23_LowerLimitPerTerm ==
    /\ self._initialized_pp_gm =>
           self._pp_gm_spline.lower =
               ExpectedLower(first_moment_zero(self.local_hod))
    /\ self._initialized_pp_gg =>
           self._pp_gg_spline.lower =
               ExpectedLower(second_moment_zero(self.local_hod))
    /\ self._initialized_h_m => self._h_m_spline.lower = [kind |-> "nu_min"]
    /\ self._initialized_pp_mm => self._pp_mm_spline.lower = [kind |-> "nu_min"]
    /\ calculate_bias(self).lower = [kind |-> "nu_min"]
    /\ calculate_m_eff(self).lower = [kind |-> "nu_min"]
    /\ calculate_f_sat(self).lower = [kind |-> "nu_min"]

(* An instance with pp_gm and pp_gg valid whose first-moment threshold is  *)
(* at the floor (not applied) and whose second-moment threshold is above   *)
(* it (applied).                                                           *)
C23_Witness ==
    /\ self._initialized_pp_gm /\ self._initialized_pp_gg
    /\ self._initialized_h_m
    /\ first_moment_zero(self.local_hod) > -1
    /\ first_moment_zero(self.local_hod) <= MassFloor
    /\ second_moment_zero(self.local_hod) > MassFloor
    /\ self._pp_gm_spline.lower = [kind |-> "nu_min"]
    /\ self._pp_gg_spline.lower.kind = "nu"

(* C24: in every reachable state the concentration normalization c0 is     *)
(* the c0 of the halo dictionary that the latest set_halo (or otherwise    *)
(* the constructor) stored beta from, divided by 1 + the current redshift. *)
C24_C0FromLatestHaloDict ==
    /\ self.c0.c0 = self.beta
    /\ self.c0.over = 1 + self._redshift

(* C25: in every reachable state of a HaloFit instance, the fit inputs     *)
(* f_1, f_2, f_3, omega_l and w that power_mm uses are those of the        *)
(* current cosmology object and redshift.                                  *)
C25_HaloFitInputsCurrent ==
    self.variant = "HaloFit" =>
        \A k \in KSamples :
            LET used == HaloFit_power_mm(self, k).value.halo_fit
            IN /\ used.cosmo = self.cosmo
               /\ used.w_at = self._redshift

(* The flags of the terms outside the set, which a read is to leave alone. *)
FlagsOutside(h, terms) == [t \in Terms \ terms |-> Flag(h, t)]

(* C26: in every reachable state of a Halo instance, power_mm builds at    *)
(* most h_m and pp_mm, power_gg at most h_g and pp_gg, power_gm at most    *)
(* h_m, h_g and pp_gm, and each leaves the flag of every other term as it  *)
(* was.                                                                    *)
C26_ReadBuildsOnlyItsTerms ==
    self.variant = "Halo" =>
        \A k \in KSamples :
            LET mm == power_mm(self, k).self
                gg == power_gg(self, k).self
                gm == power_gm(self, k).self
            IN /\ mm.built \subseteq {"h_m", "pp_mm"}
               /\ FlagsOutside(mm, {"h_m", "pp_mm"})
                      = FlagsOutside(self, {"h_m", "pp_mm"})
               /\ gg.built \subseteq {"h_g", "pp_gg"}
               /\ FlagsOutside(gg, {"h_g", "pp_gg"})
                      = FlagsOutside(self, {"h_g", "pp_gg"})
               /\ gm.built \subseteq {"h_m", "h_g", "pp_gm"}
               /\ FlagsOutside(gm, {"h_m", "h_g", "pp_gm"})
                      = FlagsOutside(self, {"h_m", "h_g", "pp_gm"})

(* A Halo instance after power_mm, with h_m and pp_mm valid and none of    *)
(* the galaxy terms ever fitted.                                           *)
C26_Witness ==
    /\ self.variant = "Halo"
    /\ call = "power_mm"
    /\ self._initialized_h_m /\ self._initialized_pp_mm
    /\ ~self._initialized_h_g /\ ~self._initialized_pp_gm
    /\ ~self._initialized_pp_gg
    /\ self._h_g_spline = NoSpline

(* C27: in every reachable state, set_redshift with the current redshift   *)
(* leaves every attribute of the instance as it was.                       *)
C27_SetRedshiftSameIsNoOp ==
    /\ set_redshift(self, self._redshift) = self
    /\ set_redshift(self, self._redshift).built = {}

(* An instance on which set_redshift was called with its current redshift  *)
(* while h_m and pp_gg were valid.                                         *)
C27_Witness ==
    /\ call = "set_redshift"
    /\ self._initialized_h_m /\ self._initialized_pp_gg
    /\ self._redshift # DefaultRedshift

----------------------------------------------------------------------------
(* Two threads on one instance.  halo.py takes no lock: a thread that is   *)
(* inside _initialize_<term> has computed its integrals from the           *)
(* attributes as they were and has yet to assign the spline and the flag   *)
(* (the last two statements of every builder), while the other thread runs *)
(* whole calls.                                                            *)

Builder(h, term) ==
    CASE term = "h_m" -> _initialize_h_m(h)
      [] term = "h_g" -> _initialize_h_g(h)
      [] term = "pp_mm" -> _initialize_pp_mm(h)
      [] term = "pp_gm" -> _initialize_pp_gm(h)
      [] term = "pp_gg" -> _initialize_pp_gg(h)

(* The terms that a power_mm call made in state h would fit.               *)
WouldFit(h) ==
    UNION {power_mm(h, k).self.built : k \in KSamples} \cap Terms

(* The last two statements of _initialize_<term>.                          *)
AssignSpline(h, term, spline) ==
    CASE term = "h_m" ->
             [h EXCEPT !._h_m_spline = spline, !._initialized_h_m = TRUE]
      [] term = "h_g" ->
             [h EXCEPT !._h_g_spline = spline, !._initialized_h_g = TRUE]
      [] term = "pp_mm" ->
             [h EXCEPT !._pp_mm_spline = spline, !._initialized_pp_mm = TRUE]
      [] term = "pp_gm" ->
             [h EXCEPT !._pp_gm_spline = spline, !._initialized_pp_gm = TRUE]
      [] term = "pp_gg" ->
             [h EXCEPT !._pp_gg_spline = spline, !._initialized_pp_gg = TRUE]

(* A thread reading power_mm enters the builder of a term and computes the *)
(* array of integrals from the instance's present attributes.              *)
RebuildBegin ==
    /\ rebuild = NoRebuild
    /\ \E term \in WouldFit(self) :
           rebuild' = [kind |-> "fit", term |-> term,
                       spline |-> SplineOf(Builder(self, term), term)]
    /\ UNCHANGED <<self, call, halo_b, cov>>

(* The reading thread assigns the spline and sets the flag.                *)
RebuildFinish ==
    /\ rebuild # NoRebuild
    /\ self' = AssignSpline(self, rebuild.term, rebuild.spline)
    /\ rebuild' = NoRebuild
    /\ UNCHANGED <<call, halo_b, cov>>

NextThreads ==
    \/ RebuildBegin
    \/ RebuildFinish
    \/ SetCosmology
    \/ SetHod
    \/ SetRedshift
    \/ PowerMM

SpecThreads == Init /\ [][NextThreads]_vars

(* C28: whatever the interleaving of a term fit with the mutators, a term  *)
(* that is marked valid holds the spline that a fit from the instance's    *)
(* present attributes gives (never one computed from the inputs of before  *)
(* a mutation).                                                            *)
C28_ValidTermsAreCurrent ==
    \A t \in Terms :
        Flag(self, t) => SplineOf(self, t) = SplineOf(Builder(self, t), t)

----------------------------------------------------------------------------
(* The Covariance object (covariance.py): the loop of __init__ that builds *)
(* the annular bins, and the kb spline of covariance_NG.  (Line 59 of      *)
(* __init__ reads the global name variace; the machine follows a run in    *)
(* which that name is bound.)                                              *)

(* numpy.floor(numpy.log10(theta_deg))                                     *)
FloorLog10(log_theta) == log_theta \div LogUnits

(* log10 of numpy.power(10.0, unit_double/bins_per_decade)                 *)
PowerOfTen(unit_double, bins_per_decade) ==
    unit_double * (LogUnits \div bins_per_decade)

(* self._current_theta_a = -1.0, self._current_theta_b = -1.0              *)
InitialTheta == [radians |-> -1]

(* annular_bin.center*deg_to_rad of the bin that starts at theta           *)
Center(theta) == [center_of |-> theta]

Covariance__init__(theta_min_deg, theta_max_deg, bins_per_decade) ==
    LET unit_double == FloorLog10(theta_min_deg) * bins_per_decade
    IN [pc |-> "while",
        theta_min_deg |-> theta_min_deg,
        theta_max_deg |-> theta_max_deg,
        bins_per_decade |-> bins_per_decade,
        unit_double |-> unit_double,
        theta |-> PowerOfTen(unit_double, bins_per_decade),
        annular_bins |-> <<>>,
        spins |-> 0,
        _current_theta_a |-> InitialTheta,
        _current_theta_b |-> InitialTheta,
        _kb_spline |-> NoSpline,
        kb_integrals |-> FALSE]

(* Covariance._initialize_kb_spline: returns at once when the angles are   *)
(* the current ones, else computes the kb integrals and fits the spline.   *)
(* It does not assign _current_theta_a or _current_theta_b.                *)
_initialize_kb_spline(c, theta_a, theta_b) ==
    IF c._current_theta_a = theta_a /\ c._current_theta_b = theta_b
    THEN [c EXCEPT !.kb_integrals = FALSE]
    ELSE [c EXCEPT !._kb_spline = [theta_a |-> theta_a, theta_b |-> theta_b],
                   !.kb_integrals = TRUE]

InitCovariance ==
    /\ \E theta_min_deg \in LogThetas, theta_max_deg \in LogThetas,
          bins_per_decade \in BinsPerDecade :
           /\ theta_min_deg < theta_max_deg
           /\ cov = Covariance__init__(theta_min_deg, theta_max_deg,
                                       bins_per_decade)
    /\ self = NoHalo
    /\ halo_b = NoHalo
    /\ rebuild = NoRebuild
    /\ call = "Covariance.__init__"

(* An iteration whose if-condition holds: append the bin, advance.         *)
AnnularBinsAppend ==
    /\ cov.pc = "while"
    /\ cov.theta < cov.theta_max_deg
    /\ cov.theta >= cov.theta_min_deg /\ cov.theta < cov.theta_max_deg
    /\ cov' = [cov EXCEPT !.annular_bins = Append(@, cov.theta),
                          !.unit_double = @ + 1,
                          !.theta = PowerOfTen(cov.unit_double + 1,
                                               cov.bins_per_decade)]
    /\ UNCHANGED <<self, call, halo_b, rebuild>>

(* An iteration whose if-condition fails: the body does nothing.           *)
AnnularBinsSkip ==
    /\ cov.pc = "while"
    /\ cov.theta < cov.theta_max_deg
    /\ ~(cov.theta >= cov.theta_min_deg /\ cov.theta < cov.theta_max_deg)
    /\ cov.spins < MaxSpins
    /\ cov' = [cov EXCEPT !.spins = @ + 1]
    /\ UNCHANGED <<self, call, halo_b, rebuild>>

AnnularBinsExit ==
    /\ cov.pc = "while"
    /\ ~(cov.theta < cov.theta_max_deg)
    /\ cov' = [cov EXCEPT !.pc = "done"]
    /\ UNCHANGED <<self, call, halo_b, rebuild>>

CovarianceNG ==
    /\ cov.pc = "done"
    /\ \E a \in 1..Len(cov.annular_bins), b \in 1..Len(cov.annular_bins) :
           cov' = _initialize_kb_spline(cov, Center(cov.annular_bins[a]),
                                        Center(cov.annular_bins[b]))
    /\ call' = "covariance_NG"
    /\ UNCHANGED <<self, halo_b, rebuild>>

NextCovarianceObject ==
    \/ AnnularBinsAppend
    \/ AnnularBinsSkip
    \/ AnnularBinsExit
    \/ CovarianceNG

SpecCovarianceObject == InitCovariance /\ [][NextCovarianceObject]_vars

(* C29: the annular-bin loop terminates: no iteration of the loop ends     *)
(* with theta and unit_double where they were (the only statements that    *)
(* change them are inside the if, so an iteration that leaves them alone   *)
(* is repeated for ever).                                                  *)
C29_AnnularBinLoopTerminates ==
    cov.spins = 0

====
